---- MODULE Spec2Model ----
(***************************************************************************)
(* kozen-secret: the SecretManager facade (configuration merge, backend    *)
(* dispatch, environment fallback), the read-only AWS backend and the      *)
(* MongoDB backend with client-side field level encryption (lazy client    *)
(* and encryption context, find-or-create of the data encryption key,      *)
(* upsert of the secret document).                                         *)
(*                                                                         *)
(* Under Spec and SpecCfg one action is one complete call of a public      *)
(* method and calls run one after the other.  Under SpecConc calls on one  *)
(* MongoDB backend instance overlap: one action is the code of a call      *)
(* between two awaits.                                                     *)
(***************************************************************************)
EXTENDS Integers, Sequences, FiniteSets, TLC

VARIABLES
    env,          \* process.env: variable name -> string (unset = not in DOMAIN)
    assistant,    \* SecretManager.assistant (IoC container) is injected
    options,      \* SecretManager._options of the facade instance
    mdbOptions,   \* SecretManager._options of the SecretManagerMDB instance
    client,       \* SecretManagerMDB.client
    encryption,   \* SecretManagerMDB.encryption
    store,        \* documents held by the MongoDB servers (secrets and data keys)
    nextId,       \* source of fresh identifiers (document _id, random master keys)
    keyCalls,     \* history: the completed createDataKey calls, in order: the alternate
                  \* name, the key returned, whether the key vault was searched
                  \* (looked) and whether a key was created
    saved,        \* history: per (server, db, collection, key) the value of the latest
                  \* acknowledged save, how many there were, and whether the handles
                  \* that made it are still held
    lastOp,       \* the latest call: its inputs, what was handed to the backend, its outcome
    nops,         \* number of calls made so far
    pc,           \* per task: the await at which its call on the MongoDB backend stands
    loc,          \* per task: the call's parameters and local variables
    built         \* history: clients and encryption contexts constructed since the
                  \* fields were last reset by close(), and the identity of this.client

taskVars == <<pc, loc, built>>

vars == <<env, assistant, options, mdbOptions, client, encryption, store,
          nextId, keyCalls, saved, lastOp, nops, pc, loc, built>>

(***************************************************************************)
(* Bounds                                                                  *)
(***************************************************************************)
MaxOps == 3

Keys == {"k1", "k2"}
Values == {"v1", "v2"}

(***************************************************************************)
(* JavaScript objects: an object is a function from the names of its own   *)
(* properties.  A missing property reads as undefined.                     *)
(***************************************************************************)
EmptyObject == [x \in {} |-> ""]

Has(o, k) == k \in DOMAIN o

\* a string property; undefined reads as "" (the code only tests such
\* properties for truthiness, and "" and undefined are both falsy)
Field(o, k) == IF k \in DOMAIN o THEN o[k] ELSE ""

\* a nested object property, for spreading and optional chaining:
\* {...undefined} is {} and undefined?.x is undefined
Nested(o, k) == IF k \in DOMAIN o THEN o[k] ELSE EmptyObject

\* { ...a, ...b }: own properties of a, then own properties of b over them;
\* a nested object of b replaces the nested object of a as a whole
Spread(a, b) ==
    [k \in (DOMAIN a) \cup (DOMAIN b) |-> IF k \in DOMAIN b THEN b[k] ELSE a[k]]

\* a || b on strings
Or(a, b) == IF a # "" THEN a ELSE b

\* String.prototype.toLowerCase on the backend type strings in use
ToLowerCase(s) ==
    CASE s = "MDB" -> "mdb"
      [] s = "Mdb" -> "mdb"
      [] s = "AWS" -> "aws"
      [] OTHER -> s

\* process.env[name]; "" stands for undefined
EnvGet(name) == IF name \in DOMAIN env THEN env[name] ELSE ""

(***************************************************************************)
(* Values and results                                                      *)
(***************************************************************************)
\* a stored or returned value: a plain string, or the Binary produced by
\* ClientEncryption.encrypt, which names the data key it was encrypted under
Plain(s) == [enc |-> FALSE, dek |-> 0, pt |-> s]
Cipher(dekId, s) == [enc |-> TRUE, dek |-> dekId, pt |-> s]
NoValue == Plain("")

Result(kind, val) == [kind |-> kind, val |-> val]
RTrue == Result("true", NoValue)
RFalse == Result("false", NoValue)
RNull == Result("null", NoValue)
RUndefined == Result("undefined", NoValue)
RThrow == Result("throw", NoValue)
RValue(v) == Result("value", v)

(***************************************************************************)
(* The MongoDB servers.  A document is a secret {key, value, encrypted} or *)
(* a data encryption key {_id, keyAltNames, key material wrapped by a      *)
(* master key}; both kinds live in ordinary collections.                   *)
(***************************************************************************)
DefaultDb == "test"       \* client.db(undefined): the database of the connection string

SecretDoc(id, srv, db, coll, key, val, encrypted) ==
    [id |-> id, srv |-> srv, db |-> db, coll |-> coll, kind |-> "secret",
     key |-> key, val |-> val, encrypted |-> encrypted,
     mk |-> [eph |-> 0, b64 |-> ""]]

DekDoc(id, srv, db, coll, altName, mk) ==
    [id |-> id, srv |-> srv, db |-> db, coll |-> coll, kind |-> "dek",
     key |-> altName, val |-> NoValue, encrypted |-> FALSE, mk |-> mk]

InColl(st, srv, db, coll) ==
    {d \in st : d.srv = srv /\ d.db = db /\ d.coll = coll}

\* the first document of a set in natural (insertion) order
First(ds) == CHOOSE d \in ds : \A e \in ds : d.id <= e.id

\* collection.findOne({ key }): secret documents carry `key`
FindByKey(st, srv, db, coll, key) ==
    {d \in InColl(st, srv, db, coll) : d.kind = "secret" /\ d.key = key}

\* collection.findOne({ keyAltNames: keyAltName }): data keys carry `keyAltNames`
FindByAlt(st, srv, db, coll, altName) ==
    {d \in InColl(st, srv, db, coll) : d.kind = "dek" /\ d.key = altName}

\* variant: collection.insertOne({ key, value, encrypted: true })
UpdateOneUpsert_Insert(st, id, srv, db, coll, key, val) ==
    st \cup {SecretDoc(id, srv, db, coll, key, val, TRUE)}

\* collection.updateOne({ key }, { $set: { value, encrypted: true } }, { upsert: true })
UpdateOneUpsert(st, id, srv, db, coll, key, val) ==
    LET hit == FindByKey(st, srv, db, coll, key) IN
    IF hit = {}
    THEN st \cup {SecretDoc(id, srv, db, coll, key, val, TRUE)}
    ELSE LET d == First(hit) IN
         (st \ {d}) \cup {[d EXCEPT !.val = val, !.encrypted = TRUE]}

(***************************************************************************)
(* SecretManager.configure                                                 *)
(***************************************************************************)
\* variant: `this._options.cloud = options.cloud; this._options.mdb = options.mdb`
configure_Replace(cur, o) ==
    [type  |-> Or(Field(o, "type"), Field(cur, "type")),
     flow  |-> Or(Field(o, "flow"), Field(cur, "flow")),
     cloud |-> Nested(o, "cloud"),
     mdb   |-> Nested(o, "mdb")]

configure(cur, o) ==
    [type  |-> Or(Field(o, "type"), Field(cur, "type")),
     flow  |-> Or(Field(o, "flow"), Field(cur, "flow")),
     cloud |-> Spread(Nested(cur, "cloud"), Nested(o, "cloud")),
     mdb   |-> Spread(Nested(cur, "mdb"), Nested(o, "mdb"))]

(***************************************************************************)
(* SecretManagerMDB: key names, key vault namespace, KMS providers         *)
(***************************************************************************)
\* `const { mdb } = options || this.options`
Effective(o, hasO, cur) == IF hasO THEN o ELSE cur

\* variant: `mdb?.keyAltName || \`${database}-${collection}.alt\``
getKeyAlt_NoEnv(o, hasO, cur) ==
    LET mdb == Nested(Effective(o, hasO, cur), "mdb") IN
    Or(Field(mdb, "keyAltName"),
       Or(Field(mdb, "database"), "db") \o "-"
           \o Or(Field(mdb, "collection"), "co") \o ".alt")

getKeyAlt(o, hasO, cur) ==
    LET mdb == Nested(Effective(o, hasO, cur), "mdb") IN
    Or(Field(mdb, "keyAltName"),
       Or(EnvGet("KOZEN_SM_ALT"),
          Or(Field(mdb, "database"), "db") \o "-"
              \o Or(Field(mdb, "collection"), "co") \o ".alt"))

getkeyVaultNamespace(o) ==
    LET mdb == Nested(o, "mdb") IN
    [db |-> Or(Field(mdb, "database"), "db"),
     coll |-> Or(Field(mdb, "collection"), "keyVault")]

\* crypto.randomBytes(96): a key no earlier context has had
getLocalKey(fresh) == [eph |-> fresh, b64 |-> ""]

\* variant: the aws provider whenever the credentials are there
getKmsProviders_NoSource(o, fresh) ==
    LET mdb == Nested(o, "mdb")
        cloud == Nested(o, "cloud")
        fromEnv == EnvGet(Or(Field(mdb, "key"), "MDB_MASTER_KEY"))
    IN [local |-> IF fromEnv # "" THEN [eph |-> 0, b64 |-> fromEnv]
                  ELSE getLocalKey(fresh),
        aws |-> /\ Field(cloud, "accessKeyId") # ""
                /\ Field(cloud, "secretAccessKey") # ""]

getKmsProviders(o, fresh) ==
    LET mdb == Nested(o, "mdb")
        cloud == Nested(o, "cloud")
        fromEnv == EnvGet(Or(Field(mdb, "key"), "MDB_MASTER_KEY"))
    IN [local |-> IF fromEnv # "" THEN [eph |-> 0, b64 |-> fromEnv]
                  ELSE getLocalKey(fresh),
        aws |-> /\ Field(cloud, "accessKeyId") # ""
                /\ Field(cloud, "secretAccessKey") # ""
                /\ Field(mdb, "source") = "cloud"]

getOptions(o, fresh) ==
    [kmsProviders |-> getKmsProviders(o, fresh),
     keyVaultNamespace |-> getkeyVaultNamespace(o)]

(***************************************************************************)
(* SecretManagerMDB.initClient                                             *)
(***************************************************************************)
NoClient == [present |-> FALSE, srv |-> "", connected |-> FALSE]
NoEncryption ==
    [present |-> FALSE, srv |-> "",
     kmsProviders |-> [local |-> [eph |-> 0, b64 |-> ""], aws |-> FALSE],
     keyVaultNamespace |-> [db |-> "", coll |-> ""]]

\* new ClientEncryption(this.client, this.getOptions(options))
NewEncryption(cl, o, fresh) ==
    LET co == getOptions(o, fresh) IN
    [present |-> TRUE, srv |-> cl.srv,
     kmsProviders |-> co.kmsProviders,
     keyVaultNamespace |-> co.keyVaultNamespace]

\* fail = "down": the server cannot be reached while connecting.
\* The outcome: whether the call returned, and the fields it leaves.
initClient(o, fail) ==
    LET mdb == Nested(o, "mdb")
        uri == EnvGet(Field(mdb, "uri"))
        same == [ok |-> FALSE, client |-> client, encryption |-> encryption, nextId |-> nextId]
    IN
    IF Field(mdb, "uri") = "" THEN same
    ELSE IF ~client.present /\ uri = "" THEN same     \* new MongoClient(undefined) throws
    ELSE IF ~client.present /\ fail = "down"
         THEN [same EXCEPT !.client = [present |-> TRUE, srv |-> uri, connected |-> FALSE]]
    ELSE LET cl == IF client.present THEN client
                   ELSE [present |-> TRUE, srv |-> uri, connected |-> TRUE]
             ephemeral == EnvGet(Or(Field(mdb, "key"), "MDB_MASTER_KEY")) = ""
         IN IF encryption.present
            THEN [ok |-> TRUE, client |-> cl, encryption |-> encryption, nextId |-> nextId]
            ELSE [ok |-> TRUE, client |-> cl,
                  encryption |-> NewEncryption(cl, o, nextId),
                  nextId |-> IF ephemeral THEN nextId + 1 ELSE nextId]

(***************************************************************************)
(* ClientEncryption: a data key can be used by a context when it is in the *)
(* context's key vault and was wrapped by the context's master key.        *)
(***************************************************************************)
KeyUsable(ctx, st, id) ==
    \E d \in InColl(st, ctx.srv, ctx.keyVaultNamespace.db, ctx.keyVaultNamespace.coll) :
        d.kind = "dek" /\ d.id = id /\ d.mk = ctx.kmsProviders.local

\* variant: an encrypt that hands the value back as it is
Encrypt_Identity(ctx, st, value, keyId) ==
    [ok |-> KeyUsable(ctx, st, keyId), val |-> value]

\* encryption.encrypt(value, { algorithm, keyId })
Encrypt(ctx, st, value, keyId) ==
    [ok |-> KeyUsable(ctx, st, keyId), val |-> Cipher(keyId, value.pt)]

\* encryption.decrypt(value); a value that is no ciphertext comes back as it is
Decrypt(ctx, st, value) ==
    IF value.enc
    THEN [ok |-> KeyUsable(ctx, st, value.dek), val |-> Plain(value.pt)]
    ELSE [ok |-> TRUE, val |-> value]

(***************************************************************************)
(* SecretManagerMDB.createDataKey                                          *)
(* cl, ctx: this.client and this.encryption after initClient.              *)
(* fail = "down": the server is unreachable during the call.               *)
(***************************************************************************)
createDataKey(o, hasO, cur, cl, ctx, st, fresh, fail) ==
    LET keyAltName == getKeyAlt(o, hasO, cur)
        omdb == IF hasO THEN Nested(o, "mdb") ELSE EmptyObject    \* options?.mdb
        lookup == Field(omdb, "database") # "" /\ Field(omdb, "collection") # ""
        existent == IF lookup
                    THEN FindByAlt(st, cl.srv, omdb["database"], omdb["collection"], keyAltName)
                    ELSE {}
        failed == [ok |-> FALSE, id |-> 0, store |-> st, nextId |-> fresh,
                   call |-> [alt |-> keyAltName, id |-> 0, created |-> FALSE,
                            looked |-> lookup]]
    IN
    IF fail = "down" THEN failed
    ELSE IF existent # {}
    THEN [ok |-> TRUE, id |-> First(existent).id, store |-> st, nextId |-> fresh,
          call |-> [alt |-> keyAltName, id |-> First(existent).id, created |-> FALSE,
                   looked |-> lookup]]
    ELSE \* this.encryption.createDataKey('local', { keyAltNames: [keyAltName] })
         [ok |-> TRUE, id |-> fresh,
          store |-> st \cup {DekDoc(fresh, ctx.srv, ctx.keyVaultNamespace.db,
                                    ctx.keyVaultNamespace.coll, keyAltName,
                                    ctx.kmsProviders.local)},
          nextId |-> fresh + 1,
          call |-> [alt |-> keyAltName, id |-> fresh, created |-> TRUE,
                   looked |-> lookup]]

(***************************************************************************)
(* Outcome of a backend call: its result, the error entries it logged, and *)
(* the state it leaves.                                                    *)
(***************************************************************************)
NoTarget == [srv |-> "", db |-> "", coll |-> ""]

Unchanged(res, errs) ==
    [res |-> res, errs |-> errs, target |-> NoTarget,
     mdbOptions |-> mdbOptions, client |-> client, encryption |-> encryption,
     store |-> store, nextId |-> nextId, keyCalls |-> keyCalls, saved |-> saved]

\* the database a collection handle addresses: client.db(mdb.database)
DbName(mdb) == Or(Field(mdb, "database"), DefaultDb)

\* the record of an acknowledged save replaces the earlier one of its key
Remember(sv, t, key, pt) ==
    LET earlier == {r \in sv : r.target = t /\ r.key = key}
        writes == IF earlier = {} THEN 1 ELSE (CHOOSE r \in earlier : TRUE).writes + 1
    IN (sv \ earlier) \cup {[target |-> t, key |-> key, pt |-> pt,
                              writes |-> writes, live |-> TRUE]}

(***************************************************************************)
(* SecretManagerMDB.resolve                                                *)
(***************************************************************************)
\* variant: `return secretDocument.value`
ResolvedValue_Raw(doc, ctx, st) == [ok |-> TRUE, val |-> doc.val]

\* `let resolvedValue = secretDocument.value; if (encrypted && this.encryption) decrypt`
ResolvedValue(doc, ctx, st) ==
    IF doc.encrypted /\ ctx.present
    THEN Decrypt(ctx, st, doc.val)
    ELSE [ok |-> TRUE, val |-> doc.val]

SecretManagerMDB_resolve(key, o, hasO, fail) ==
    LET cur == IF hasO THEN Spread(mdbOptions, o) ELSE mdbOptions
        mdb == Nested(cur, "mdb")
        ic == initClient(cur, fail)
        thrown == [Unchanged(RThrow, 1) EXCEPT !.mdbOptions = cur]
        afterInit == [thrown EXCEPT !.client = ic.client,
                                    !.encryption = ic.encryption,
                                    !.nextId = ic.nextId]
        target == [srv |-> ic.client.srv, db |-> DbName(mdb), coll |-> Field(mdb, "collection")]
        hit == FindByKey(store, target.srv, target.db, target.coll, key)
        queried == [afterInit EXCEPT !.client.connected = TRUE, !.target = target]
    IN
    IF ~Has(cur, "mdb") THEN thrown
    ELSE IF ~ic.ok THEN afterInit
    ELSE IF Field(mdb, "collection") = "" THEN afterInit
    ELSE IF fail = "down" THEN [afterInit EXCEPT !.target = target]
    ELSE IF hit = {} THEN [queried EXCEPT !.res = RNull, !.errs = 0]
    ELSE LET dv == ResolvedValue(First(hit), ic.encryption, store) IN
         IF dv.ok THEN [queried EXCEPT !.res = RValue(dv.val), !.errs = 0]
         ELSE queried

(***************************************************************************)
(* SecretManagerMDB.save                                                   *)
(* fail = "write": the final updateOne fails.                              *)
(***************************************************************************)
SecretManagerMDB_save(key, value, o, hasO, fail) ==
    LET cur == IF hasO THEN Spread(mdbOptions, o) ELSE mdbOptions
        mdb == Nested(cur, "mdb")
        ic == initClient(cur, fail)
        thrown == [Unchanged(RThrow, 1) EXCEPT !.mdbOptions = cur]
        afterInit == [thrown EXCEPT !.client = ic.client,
                                    !.encryption = ic.encryption,
                                    !.nextId = ic.nextId]
        target == [srv |-> ic.client.srv, db |-> DbName(mdb), coll |-> Field(mdb, "collection")]
        dk == createDataKey(o, hasO, cur, ic.client, ic.encryption, store, ic.nextId, fail)
        afterKey == [afterInit EXCEPT !.client.connected = TRUE,
                                      !.target = target,
                                      !.store = dk.store,
                                      !.nextId = dk.nextId,
                                      !.keyCalls = Append(keyCalls, dk.call)]
        ev == Encrypt(ic.encryption, dk.store, Plain(value), dk.id)
        isNew == FindByKey(dk.store, target.srv, target.db, target.coll, key) = {}
    IN
    IF ~Has(cur, "mdb") THEN thrown
    ELSE IF ~ic.ok THEN afterInit
    ELSE IF Field(mdb, "collection") = "" THEN afterInit
    ELSE IF ~dk.ok THEN [afterInit EXCEPT !.target = target]
    ELSE IF ~ev.ok THEN afterKey
    ELSE IF fail = "write" THEN afterKey
    ELSE [afterKey EXCEPT
            !.res = RTrue,
            !.errs = 0,
            !.store = UpdateOneUpsert(dk.store, dk.nextId, target.srv, target.db,
                                      target.coll, key, ev.val),
            !.nextId = IF isNew THEN dk.nextId + 1 ELSE dk.nextId,
            !.saved = Remember(saved, target, key, value)]

(***************************************************************************)
(* SecretManagerMDB.close                                                  *)
(***************************************************************************)
\* variant: `this.client = null` alone
SecretManagerMDB_close_KeepEncryption ==
    [Unchanged(Result("void", NoValue), 0) EXCEPT
        !.client = NoClient,
        !.saved = {[r EXCEPT !.live = FALSE] : r \in saved}]

SecretManagerMDB_close ==
    [Unchanged(Result("void", NoValue), 0) EXCEPT
        !.client = NoClient,
        !.encryption = NoEncryption,
        !.saved = {[r EXCEPT !.live = FALSE] : r \in saved}]

(***************************************************************************)
(* SecretManagerAWS: the managed store is read-only for this program.      *)
(***************************************************************************)
\* SecretString of the secrets held by AWS Secrets Manager
AwsSecretString == [k2 |-> "\"aws-v\""]

\* JSON.parse of a SecretString
JsonParse(s) ==
    IF s = "\"aws-v\"" THEN [ok |-> TRUE, val |-> Plain("aws-v")]
    ELSE [ok |-> FALSE, val |-> NoValue]

SecretManagerAWS_resolve(key, o, hasO, fail) ==
    LET text == Field(AwsSecretString, key)
        parsed == JsonParse(text)
    IN
    IF fail = "down" THEN Unchanged(RThrow, 1)
    ELSE IF text = "" THEN Unchanged(RThrow, 1)
    ELSE IF ~parsed.ok THEN Unchanged(RThrow, 1)
    ELSE Unchanged(RValue(parsed.val), 0)

\* variant: `return false`
SecretManagerAWS_save_NoOp(key, value, o, hasO, fail) ==
    Unchanged(RFalse, 0)

SecretManagerAWS_save(key, value, o, hasO, fail) ==
    Unchanged(RThrow, 0)

(***************************************************************************)
(* The facade: SecretManager.getValue, resolve, save                       *)
(***************************************************************************)
\* the backends wired under the prefix 'secret:manager:'
Registered == {"aws", "mdb"}

\* this.getDelegate(name): the backend instance, or none for an unknown name
getDelegate(name) == IF name \in Registered THEN name ELSE "undefined"

\* `options = { ...this.options, ...options }`
Merged(o, hasO) == Spread(options, IF hasO THEN o ELSE EmptyObject)

\* variant: `options.type || 'aws'`
DelegateName_AsWritten(merged) == Or(Field(merged, "type"), "aws")

\* `(options.type || 'aws').toLowerCase()`
DelegateName(merged) == ToLowerCase(Or(Field(merged, "type"), "aws"))

\* the checks made before the backend is called
Dispatches(merged) ==
    /\ assistant
    /\ Field(options, "type") # ""
    /\ getDelegate(DelegateName(merged)) # "undefined"

\* variant: a catch block that does not log
NotDispatched_Silent(res) ==
    [out |-> Unchanged(res, 0), dispatched |-> FALSE, backend |-> "none",
     handed |-> EmptyObject, bres |-> Result("none", NoValue)]

NotDispatched(res) ==
    [out |-> Unchanged(res, 1), dispatched |-> FALSE, backend |-> "none",
     handed |-> EmptyObject, bres |-> Result("none", NoValue)]

\* variant: `return controller.resolve(key, options)`
AwaitResolve_NotAwaited(b) == b

\* `return await controller.resolve(key, options)`: a rejection is caught
AwaitResolve(b) ==
    IF b.res.kind = "throw" THEN [b EXCEPT !.res = RNull, !.errs = b.errs + 1] ELSE b

SecretManager_getValue(key, o, hasO, fail) ==
    LET merged == Merged(o, hasO)
        name == DelegateName(merged)
        b == IF name = "aws"
             THEN SecretManagerAWS_resolve(key, merged, TRUE, fail)
             ELSE SecretManagerMDB_resolve(key, merged, TRUE, fail)
    IN
    IF ~Dispatches(merged) THEN NotDispatched(RNull)
    ELSE [out |-> AwaitResolve(b), dispatched |-> TRUE, backend |-> name,
          handed |-> merged, bres |-> b.res]

\* variant: `return value`
EnvFallback_None(res, key) == res

\* `value ?? process.env[key]`
EnvFallback(res, key) ==
    IF res.kind \in {"null", "undefined"}
    THEN IF key \in DOMAIN env THEN RValue(Plain(env[key])) ELSE RUndefined
    ELSE res

SecretManager_resolve(key, o, hasO, fail) ==
    LET g == SecretManager_getValue(key, o, hasO, fail) IN
    [g EXCEPT !.out.res = EnvFallback(g.out.res, key)]

\* `return controller.save(key, value, options)`: the backend's promise is
\* returned as it is, so a rejection is the caller's
ReturnSave(b) == b

SecretManager_save(key, value, o, hasO, fail) ==
    LET merged == Merged(o, hasO)
        name == DelegateName(merged)
        b == IF name = "aws"
             THEN SecretManagerAWS_save(key, value, merged, TRUE, fail)
             ELSE SecretManagerMDB_save(key, value, merged, TRUE, fail)
    IN
    IF ~Dispatches(merged) THEN NotDispatched(RFalse)
    ELSE [out |-> ReturnSave(b), dispatched |-> TRUE, backend |-> name,
          handed |-> merged, bres |-> b.res]

(***************************************************************************)
(* Configurations, environments and stores the calls are tried on          *)
(***************************************************************************)
M1 == [uri |-> "URI_A", database |-> "d1", collection |-> "c1"]
MNoDb == [uri |-> "URI_A", collection |-> "c1"]
Cloud1 == [region |-> "eu-west-1", accessKeyId |-> "AK", secretAccessKey |-> "SK"]

\* per-call overrides, also the arguments of configure
Overrides ==
    {[type |-> "vault"],
     [type |-> "MDB"],
     [mdb |-> [uri |-> "URI_B"]],
     [flow |-> "f1", cloud |-> [region |-> "us-east-2"]]}

OverrideChoices ==
    {[has |-> FALSE, o |-> EmptyObject]} \cup {[has |-> TRUE, o |-> x] : x \in Overrides}

\* the options the facade is constructed with
InitialOptions ==
    {EmptyObject,
     [type |-> "mdb", mdb |-> M1],
     [type |-> "mdb", mdb |-> MNoDb],
     [type |-> "AWS", cloud |-> Cloud1]}

\* the options the MongoDB backend instance is constructed with
InitialMdbOptions == {EmptyObject}

Envs ==
    {[k1 |-> "env-k1", URI_A |-> "srvA", URI_B |-> "srvB", MDB_MASTER_KEY |-> "bWFzdGVy"],
     [k1 |-> "env-k1", URI_A |-> "srvA", URI_B |-> "srvB", KOZEN_SM_ALT |-> "shared.alt"]}

\* what the servers hold when the program starts: nothing, or a secret
\* stored unencrypted by other means
InitialStores ==
    {{}, {SecretDoc(1, "srvA", "d1", "c1", "k2", Plain("old"), FALSE)}}

\* the tasks that call the MongoDB backend instance
Tasks == {"t1", "t2"}

\* a task's local variables: the call and its parameters, the client it
\* constructed (gen), what initClient returned (cl), the encryption context
\* whose encrypt/decrypt was called (ctx), the client and context of the
\* data key lookup (kcl, kctx), the data key (id), the document value in
\* hand and its encrypted flag (item, flagged), and the call's result
NoLocal ==
    [op |-> "none", key |-> "", val |-> "", gen |-> 0, cl |-> NoClient,
     ctx |-> NoEncryption, kcl |-> NoClient, kctx |-> NoEncryption, id |-> 0,
     item |-> NoValue, flagged |-> FALSE, res |-> Result("none", NoValue)]

NoTasks == [t \in Tasks |-> "idle"]
NoLocals == [t \in Tasks |-> NoLocal]
NoneBuilt == [clients |-> 0, ctxs |-> 0, made |-> 0, cur |-> 0]

NoCall ==
    [op |-> "init", key |-> "", override |-> EmptyObject,
     hasOverride |-> FALSE, fail |-> "none", before |-> EmptyObject,
     dispatched |-> FALSE, backend |-> "none", handed |-> EmptyObject,
     bres |-> Result("none", NoValue), res |-> Result("void", NoValue), errs |-> 0,
     target |-> NoTarget]

Init ==
    /\ env \in Envs
    /\ assistant \in BOOLEAN
    /\ options \in InitialOptions
    /\ mdbOptions \in InitialMdbOptions
    /\ client = NoClient
    /\ encryption = NoEncryption
    /\ store \in InitialStores
    /\ nextId = 2
    /\ keyCalls = <<>>
    /\ saved = {}
    /\ lastOp = NoCall
    /\ nops = 0
    /\ pc = NoTasks
    /\ loc = NoLocals
    /\ built = NoneBuilt

(***************************************************************************)
(* Actions: one call each                                                  *)
(***************************************************************************)
\* the state a facade call leaves, and its record
Finish(op, key, c, fail, f) ==
    /\ mdbOptions' = f.out.mdbOptions
    /\ client' = f.out.client
    /\ encryption' = f.out.encryption
    /\ store' = f.out.store
    /\ nextId' = f.out.nextId
    /\ keyCalls' = f.out.keyCalls
    /\ saved' = f.out.saved
    /\ lastOp' = [op |-> op, key |-> key, override |-> c.o,
                  hasOverride |-> c.has,
                  fail |-> IF f.dispatched THEN fail ELSE "none",
                  before |-> options,
                  dispatched |-> f.dispatched, backend |-> f.backend,
                  handed |-> f.handed, bres |-> f.bres, res |-> f.out.res,
                  errs |-> f.out.errs, target |-> f.out.target]
    /\ nops' = nops + 1
    /\ UNCHANGED <<env, assistant, options>>
    /\ UNCHANGED taskVars

Resolve ==
    \E key \in Keys, c \in OverrideChoices, fail \in {"none", "down"} :
        /\ nops < MaxOps
        /\ Finish("resolve", key, c, fail, SecretManager_resolve(key, c.o, c.has, fail))

Save ==
    \E key \in Keys, value \in Values, c \in OverrideChoices,
       fail \in {"none", "down", "write"} :
        /\ nops < MaxOps
        /\ Finish("save", key, c, fail,
                  SecretManager_save(key, value, c.o, c.has, fail))

Configure ==
    \E o \in Overrides :
        /\ nops < MaxOps
        /\ options' = configure(options, o)
        /\ lastOp' = [NoCall EXCEPT !.op = "configure", !.override = o,
                                    !.hasOverride = TRUE, !.before = options]
        /\ nops' = nops + 1
        /\ UNCHANGED <<env, assistant, mdbOptions, client, encryption, store,
                       nextId, keyCalls, saved>>
        /\ UNCHANGED taskVars

Close ==
    /\ nops < MaxOps
    /\ client' = SecretManagerMDB_close.client
    /\ encryption' = SecretManagerMDB_close.encryption
    /\ saved' = SecretManagerMDB_close.saved
    /\ lastOp' = [NoCall EXCEPT !.op = "close", !.before = options]
    /\ nops' = nops + 1
    /\ UNCHANGED <<env, assistant, options, mdbOptions, store, nextId, keyCalls>>
    /\ UNCHANGED taskVars

Next == Resolve \/ Save \/ Configure \/ Close

Spec == Init /\ [][Next]_vars

(***************************************************************************)
(* Values derived from the configuration (key alternate name, KMS          *)
(* providers): saves through a facade constructed with each combination of *)
(* the optional settings.                                                  *)
(***************************************************************************)
MaxCfgOps == 2

\* o with property k set to v, or o itself when v is left out ("")
WithField(o, k, v) == IF v = "" THEN o ELSE Spread(o, [x \in {k} |-> v])

CfgClouds ==
    {EmptyObject,
     [region |-> "eu-west-1", accessKeyId |-> "AK"],
     [region |-> "eu-west-1", secretAccessKey |-> "SK"],
     Cloud1}

CfgOptions ==
    {[type |-> "mdb",
      mdb |-> WithField(WithField(WithField(MNoDb, "database", d), "keyAltName", a),
                        "source", src),
      cloud |-> cl] :
        d \in {"", "d1"}, a \in {"", "my.alt"}, src \in {"", "local", "cloud"},
        cl \in CfgClouds}

CfgInit ==
    /\ env \in Envs
    /\ assistant = TRUE
    /\ options \in CfgOptions
    /\ mdbOptions = EmptyObject
    /\ client = NoClient
    /\ encryption = NoEncryption
    /\ store = {}
    /\ nextId = 2
    /\ keyCalls = <<>>
    /\ saved = {}
    /\ lastOp = NoCall
    /\ nops = 0
    /\ pc = NoTasks
    /\ loc = NoLocals
    /\ built = NoneBuilt

CfgSave ==
    \E value \in Values :
        /\ nops < MaxCfgOps
        /\ Finish("save", "k1", [has |-> FALSE, o |-> EmptyObject], "none",
                  SecretManager_save("k1", value, EmptyObject, FALSE, "none"))

CfgNext == CfgSave

SpecCfg == CfgInit /\ [][CfgNext]_vars

(***************************************************************************)
(* Overlapping calls on one SecretManagerMDB instance.  A call runs from   *)
(* one await to the next without interruption; at an await any other task  *)
(* may run.  An awaited driver operation completes or fails; one that is   *)
(* in flight while the client is closed may do either.                     *)
(***************************************************************************)
MaxCalls == 3

\* the options every call is made with: what the facade hands over
ConcOptions == [type |-> "mdb", mdb |-> M1]
ConcKeys == {"k1"}

\* the environment with a master key, so that contexts share it
ConcEnv == CHOOSE e \in Envs : "MDB_MASTER_KEY" \in DOMAIN e

\* what the servers hold: nothing, or a data key and a secret encrypted
\* under it by an earlier run of the program
ConcStores ==
    {{},
     {DekDoc(1, "srvA", "d1", "c1", "d1-c1.alt", [eph |-> 0, b64 |-> "bWFzdGVy"]),
      SecretDoc(2, "srvA", "d1", "c1", "k1", Cipher(1, "old"), TRUE)}}

IoError == Result("throw", Plain("io"))
TypeError == Result("throw", Plain("TypeError"))
ConfigError == Result("throw", Plain("config"))

ConcInit ==
    /\ env = ConcEnv
    /\ assistant = TRUE
    /\ options = ConcOptions
    /\ mdbOptions = EmptyObject
    /\ client = NoClient
    /\ encryption = NoEncryption
    /\ store \in ConcStores
    /\ nextId = 3
    /\ keyCalls = <<>>
    /\ saved = {}
    /\ lastOp = NoCall
    /\ nops = 0
    /\ pc = NoTasks
    /\ loc = NoLocals
    /\ built = NoneBuilt

\* variant: `const c = new MongoClient(uri); await c.connect(); this.client = c`
ConstructClient_Deferred(uri) == NoClient

\* this.client right after `this.client = new MongoClient(uri)`
ConstructClient(uri) == [present |-> TRUE, srv |-> uri, connected |-> FALSE]

\* `if (!this.encryption) this.encryption = new ClientEncryption(this.client, ...)`
\* ctor: whether the constructor accepts a null client
EnsureEncryption(cl, o, ctor) ==
    LET ephemeral == EnvGet(Or(Field(Nested(o, "mdb"), "key"), "MDB_MASTER_KEY")) = "" IN
    IF encryption.present
    THEN [ok |-> TRUE, encryption |-> encryption, nextId |-> nextId, made |-> 0]
    ELSE IF ~cl.present /\ ~ctor
    THEN [ok |-> FALSE, encryption |-> encryption, nextId |-> nextId, made |-> 0]
    ELSE [ok |-> TRUE, encryption |-> NewEncryption(cl, o, nextId),
          nextId |-> IF ephemeral THEN nextId + 1 ELSE nextId, made |-> 1]

\* the call ends with res
Return(t, res) ==
    /\ pc' = [pc EXCEPT ![t] = "done"]
    /\ loc' = [loc EXCEPT ![t].res = res]

\* resolve/save up to the first await: the options merge and initClient up
\* to `await this.client.connect()`, or up to its return
Begin(t, op, key, val) ==
    LET cur == Spread(mdbOptions, ConcOptions)
        mdb == Nested(cur, "mdb")
        uri == EnvGet(Field(mdb, "uri"))
        call == [NoLocal EXCEPT !.op = op, !.key = key, !.val = val]
        ee == EnsureEncryption(client, cur, TRUE)
    IN
    /\ pc[t] \in {"idle", "done"}
    /\ nops < MaxCalls
    /\ nops' = nops + 1
    /\ mdbOptions' = cur
    /\ IF Field(mdb, "uri") = "" \/ (~client.present /\ uri = "")
       THEN /\ pc' = [pc EXCEPT ![t] = "done"]
            /\ loc' = [loc EXCEPT ![t] = [call EXCEPT !.res = ConfigError]]
            /\ UNCHANGED <<client, encryption, nextId, built>>
       ELSE IF ~client.present
       THEN /\ client' = ConstructClient(uri)
            /\ built' = [built EXCEPT !.clients = @ + 1, !.made = @ + 1,
                                      !.cur = built.made + 1]
            /\ pc' = [pc EXCEPT ![t] = "connect"]
            /\ loc' = [loc EXCEPT ![t] = [call EXCEPT !.gen = built.made + 1]]
            /\ UNCHANGED <<encryption, nextId>>
       ELSE /\ encryption' = ee.encryption
            /\ nextId' = ee.nextId
            /\ built' = [built EXCEPT !.ctxs = @ + ee.made]
            /\ pc' = [pc EXCEPT ![t] = "inited"]
            /\ loc' = [loc EXCEPT ![t] = [call EXCEPT !.cl = client]]
            /\ UNCHANGED client
    /\ UNCHANGED <<env, assistant, options, store, keyCalls, saved, lastOp>>

CallResolve(t) == \E key \in ConcKeys : Begin(t, "resolve", key, "")

CallSave(t) == \E key \in ConcKeys, value \in Values : Begin(t, "save", key, value)

\* initClient from the completion of connect() to its return
Connected(t) ==
    \E ok \in BOOLEAN, ctor \in BOOLEAN :
        LET mine == client.present /\ built.cur = loc[t].gen
            cl == IF mine THEN [client EXCEPT !.connected = TRUE] ELSE client
            ee == EnsureEncryption(cl, mdbOptions, ctor)
        IN
        /\ pc[t] = "connect"
        /\ IF ~ok
           THEN /\ Return(t, IoError)
                /\ UNCHANGED <<client, encryption, nextId, built>>
           ELSE IF ~ee.ok
           THEN /\ Return(t, TypeError)
                /\ client' = cl
                /\ UNCHANGED <<encryption, nextId, built>>
           ELSE /\ client' = cl
                /\ encryption' = ee.encryption
                /\ nextId' = ee.nextId
                /\ built' = [built EXCEPT !.ctxs = @ + ee.made]
                /\ pc' = [pc EXCEPT ![t] = "inited"]
                /\ loc' = [loc EXCEPT ![t].cl = cl]
        /\ UNCHANGED <<env, assistant, options, mdbOptions, store, keyCalls,
                       saved, lastOp, nops>>

\* from the return of initClient to the next await: findOne of the secret
\* (resolve), or findOne of the data key inside createDataKey (save), whose
\* result is passed to the encrypt method looked up before
Inited(t) ==
    LET mdb == Nested(mdbOptions, "mdb") IN
    /\ pc[t] = "inited"
    /\ IF Field(mdb, "collection") = "" THEN Return(t, ConfigError)
       ELSE IF ~loc[t].cl.present THEN Return(t, TypeError)
       ELSE IF loc[t].op = "resolve"
       THEN pc' = [pc EXCEPT ![t] = "find"] /\ UNCHANGED loc
       ELSE IF ~encryption.present \/ ~client.present THEN Return(t, TypeError)
       ELSE /\ pc' = [pc EXCEPT ![t] = "keyfind"]
            /\ loc' = [loc EXCEPT ![t].ctx = encryption, ![t].kcl = client]
    /\ UNCHANGED <<env, assistant, options, mdbOptions, client, encryption, store,
                   nextId, keyCalls, saved, lastOp, nops, built>>

CryptError == Result("throw", Plain("crypt"))

\* resolve from the completion of findOne({ key }) to its return, or to
\* `await this.encryption.decrypt(resolvedValue)`
Found(t) ==
    \E ok \in BOOLEAN :
        LET mdb == Nested(mdbOptions, "mdb")
            hit == FindByKey(store, loc[t].cl.srv, DbName(mdb),
                             Field(mdb, "collection"), loc[t].key)
            doc == First(hit)
        IN
        /\ pc[t] = "find"
        /\ IF ~ok THEN Return(t, IoError)
           ELSE IF hit = {} THEN Return(t, RNull)
           ELSE IF doc.encrypted /\ encryption.present
           THEN /\ pc' = [pc EXCEPT ![t] = "decrypt"]
                /\ loc' = [loc EXCEPT ![t].item = doc.val, ![t].flagged = doc.encrypted,
                                      ![t].ctx = encryption]
           ELSE /\ pc' = [pc EXCEPT ![t] = "done"]
                /\ loc' = [loc EXCEPT
                               ![t].item = doc.val, ![t].flagged = doc.encrypted,
                               ![t].res = RValue(ResolvedValue(doc, encryption, store).val)]
        /\ UNCHANGED <<env, assistant, options, mdbOptions, client, encryption, store,
                       nextId, keyCalls, saved, lastOp, nops, built>>

\* resolve from the completion of decrypt to its return
Decrypted(t) ==
    \E ok \in BOOLEAN :
        LET dv == ResolvedValue([val |-> loc[t].item, encrypted |-> loc[t].flagged],
                                loc[t].ctx, store)
        IN
        /\ pc[t] = "decrypt"
        /\ IF ~ok THEN Return(t, IoError)
           ELSE IF ~dv.ok THEN Return(t, CryptError)
           ELSE Return(t, RValue(dv.val))
        /\ UNCHANGED <<env, assistant, options, mdbOptions, client, encryption, store,
                       nextId, keyCalls, saved, lastOp, nops, built>>

\* createDataKey from the completion of findOne({ keyAltNames }) to its
\* return, or to `await this.encryption.createDataKey('local', ...)`
KeyFound(t) ==
    \E ok \in BOOLEAN :
        LET alt == getKeyAlt(ConcOptions, TRUE, mdbOptions)
            omdb == Nested(ConcOptions, "mdb")
            lookup == Field(omdb, "database") # "" /\ Field(omdb, "collection") # ""
            existent == IF lookup
                        THEN FindByAlt(store, loc[t].kcl.srv, omdb["database"],
                                       omdb["collection"], alt)
                        ELSE {}
        IN
        /\ pc[t] = "keyfind"
        /\ IF ~ok THEN Return(t, IoError) /\ UNCHANGED keyCalls
           ELSE IF existent # {}
           THEN /\ pc' = [pc EXCEPT ![t] = "encrypt"]
                /\ loc' = [loc EXCEPT ![t].id = First(existent).id]
                /\ keyCalls' = Append(keyCalls, [alt |-> alt, id |-> First(existent).id,
                                                 created |-> FALSE, looked |-> lookup])
           ELSE IF ~encryption.present THEN Return(t, TypeError) /\ UNCHANGED keyCalls
           ELSE /\ pc' = [pc EXCEPT ![t] = "keycreate"]
                /\ loc' = [loc EXCEPT ![t].kctx = encryption]
                /\ UNCHANGED keyCalls
        /\ UNCHANGED <<env, assistant, options, mdbOptions, client, encryption, store,
                       nextId, saved, lastOp, nops, built>>

\* variant: a key vault that refuses a second key with an alternate name
RequestDataKey_Unique(ctx, st, alt, fresh) ==
    [ok |-> FindByAlt(st, ctx.srv, ctx.keyVaultNamespace.db,
                      ctx.keyVaultNamespace.coll, alt) = {},
     store |-> st \cup {DekDoc(fresh, ctx.srv, ctx.keyVaultNamespace.db,
                               ctx.keyVaultNamespace.coll, alt, ctx.kmsProviders.local)}]

\* this.encryption.createDataKey('local', { keyAltNames: [keyAltName] })
RequestDataKey(ctx, st, alt, fresh) ==
    [ok |-> TRUE,
     store |-> st \cup {DekDoc(fresh, ctx.srv, ctx.keyVaultNamespace.db,
                               ctx.keyVaultNamespace.coll, alt, ctx.kmsProviders.local)}]

\* createDataKey from the completion of the key creation to its return
KeyCreated(t) ==
    \E ok \in BOOLEAN :
        LET alt == getKeyAlt(ConcOptions, TRUE, mdbOptions)
            rk == RequestDataKey(loc[t].kctx, store, alt, nextId)
        IN
        /\ pc[t] = "keycreate"
        /\ IF ~ok THEN Return(t, IoError) /\ UNCHANGED <<store, nextId, keyCalls>>
           ELSE IF ~rk.ok
           THEN Return(t, Result("throw", Plain("DuplicateKey")))
                    /\ UNCHANGED <<store, nextId, keyCalls>>
           ELSE /\ store' = rk.store
                /\ nextId' = nextId + 1
                /\ keyCalls' = Append(keyCalls, [alt |-> alt, id |-> nextId,
                                                 created |-> TRUE, looked |-> TRUE])
                /\ pc' = [pc EXCEPT ![t] = "encrypt"]
                /\ loc' = [loc EXCEPT ![t].id = nextId]
        /\ UNCHANGED <<env, assistant, options, mdbOptions, client, encryption,
                       saved, lastOp, nops, built>>

\* save from the completion of encrypt to `await collection.updateOne(...)`
Encrypted(t) ==
    \E ok \in BOOLEAN :
        LET ev == Encrypt(loc[t].ctx, store, Plain(loc[t].val), loc[t].id) IN
        /\ pc[t] = "encrypt"
        /\ IF ~ok THEN Return(t, IoError)
           ELSE IF ~ev.ok THEN Return(t, CryptError)
           ELSE /\ pc' = [pc EXCEPT ![t] = "update"]
                /\ loc' = [loc EXCEPT ![t].item = ev.val]
        /\ UNCHANGED <<env, assistant, options, mdbOptions, client, encryption, store,
                       nextId, keyCalls, saved, lastOp, nops, built>>

\* save from the completion of updateOne to its return
Updated(t) ==
    \E ok \in BOOLEAN :
        LET mdb == Nested(mdbOptions, "mdb")
            target == [srv |-> loc[t].cl.srv, db |-> DbName(mdb),
                       coll |-> Field(mdb, "collection")]
            isNew == FindByKey(store, target.srv, target.db, target.coll, loc[t].key) = {}
        IN
        /\ pc[t] = "update"
        /\ IF ~ok THEN Return(t, IoError) /\ UNCHANGED <<store, nextId, saved>>
           ELSE /\ store' = UpdateOneUpsert(store, nextId, target.srv, target.db,
                                            target.coll, loc[t].key, loc[t].item)
                /\ nextId' = IF isNew THEN nextId + 1 ELSE nextId
                /\ saved' = Remember(saved, target, loc[t].key, loc[t].val)
                /\ Return(t, RTrue)
        /\ UNCHANGED <<env, assistant, options, mdbOptions, client, encryption,
                       keyCalls, lastOp, nops, built>>

\* close up to `await this.client.close()`, or to its return when there is
\* no client
CallClose(t) ==
    /\ pc[t] \in {"idle", "done"}
    /\ nops < MaxCalls
    /\ nops' = nops + 1
    /\ IF client.present
       THEN /\ pc' = [pc EXCEPT ![t] = "closing"]
            /\ loc' = [loc EXCEPT ![t] = [NoLocal EXCEPT !.op = "close"]]
            /\ UNCHANGED <<client, encryption, saved, built>>
       ELSE /\ client' = SecretManagerMDB_close.client
            /\ encryption' = SecretManagerMDB_close.encryption
            /\ saved' = SecretManagerMDB_close.saved
            /\ built' = [built EXCEPT !.clients = 0, !.ctxs = 0, !.cur = 0]
            /\ pc' = [pc EXCEPT ![t] = "done"]
            /\ loc' = [loc EXCEPT ![t] = [NoLocal EXCEPT !.op = "close",
                                                         !.res = Result("void", NoValue)]]
    /\ UNCHANGED <<env, assistant, options, mdbOptions, store, nextId, keyCalls, lastOp>>

\* close from the completion of client.close() to its return
Closed(t) ==
    /\ pc[t] = "closing"
    /\ client' = SecretManagerMDB_close.client
    /\ encryption' = SecretManagerMDB_close.encryption
    /\ saved' = SecretManagerMDB_close.saved
    /\ built' = [built EXCEPT !.clients = 0, !.ctxs = 0, !.cur = 0]
    /\ Return(t, Result("void", NoValue))
    /\ UNCHANGED <<env, assistant, options, mdbOptions, store, nextId, keyCalls,
                   lastOp, nops>>

ConcNext ==
    \E t \in Tasks :
        \/ CallResolve(t) \/ CallSave(t) \/ CallClose(t)
        \/ Connected(t) \/ Inited(t)
        \/ Found(t) \/ Decrypted(t)
        \/ KeyFound(t) \/ KeyCreated(t) \/ Encrypted(t) \/ Updated(t)
        \/ Closed(t)

SpecConc == ConcInit /\ [][ConcNext]_vars

(***************************************************************************)
(* Properties                                                              *)
(***************************************************************************)
IsCall(op) == lastOp.op = op

\* the environment fallback of the facade's resolve for the latest call's key
Fallback ==
    IF lastOp.key \in DOMAIN env THEN RValue(Plain(env[lastOp.key])) ELSE RUndefined

\* the latest call failed before or in the backend
BackendFailed == ~lastOp.dispatched \/ lastOp.bres.kind = "throw"

\* C1: the facade's save never rejects; whenever the backend's save fails
\* (or no backend is reached) the facade's save completes with false.
C1_SaveNeverRejects ==
    IsCall("save") =>
        /\ lastOp.res.kind \in {"true", "false"}
        /\ BackendFailed => lastOp.res = RFalse

C3_FallbackNull ==
    (IsCall("resolve") /\ lastOp.dispatched) =>
        /\ lastOp.bres.kind = "value" => lastOp.res = lastOp.bres
        /\ (lastOp.bres.kind = "null" /\ lastOp.key \in DOMAIN env) =>
               lastOp.res = RValue(Plain(env[lastOp.key]))
        /\ (lastOp.bres.kind = "null" /\ lastOp.key \notin DOMAIN env) =>
               lastOp.res = RNull

\* C3 amended: the facade's resolve returns the backend's value when there
\* is one, else the environment variable named key, else undefined.
C3_FallbackUndefined ==
    (IsCall("resolve") /\ lastOp.dispatched) =>
        /\ lastOp.bres.kind = "value" => lastOp.res = lastOp.bres
        /\ (lastOp.bres.kind = "null" /\ lastOp.key \in DOMAIN env) =>
               lastOp.res = RValue(Plain(env[lastOp.key]))
        /\ (lastOp.bres.kind = "null" /\ lastOp.key \notin DOMAIN env) =>
               lastOp.res = RUndefined

C3_Witness ==
    IsCall("resolve") /\ lastOp.dispatched /\ lastOp.bres.kind = "null"
        /\ lastOp.key \notin DOMAIN env /\ lastOp.res = RUndefined

\* the latest call's effective backend type names no registered backend
UnknownType ==
    /\ lastOp.op \in {"save", "resolve"}
    /\ DelegateName(Spread(lastOp.before, lastOp.override)) \notin Registered

\* C4 as stated: with an unregistered effective type, save returns false and
\* resolve returns null, neither raises, and the call logs exactly one error.
C4_UnknownTypeNull ==
    UnknownType =>
        /\ lastOp.errs = 1
        /\ IsCall("save") => lastOp.res = RFalse
        /\ IsCall("resolve") => lastOp.res = RNull

\* C4 amended: with an unregistered effective type, save returns false and
\* resolve returns the environment variable named key, or undefined when it
\* is unset; neither raises, no backend is called, and the call logs exactly
\* one error.
C4_UnknownTypeFallback ==
    UnknownType =>
        /\ lastOp.errs = 1
        /\ ~lastOp.dispatched
        /\ IsCall("save") => lastOp.res = RFalse
        /\ IsCall("resolve") => lastOp.res = Fallback

C4_Witness ==
    /\ UnknownType /\ IsCall("resolve")
    /\ assistant /\ Field(lastOp.before, "type") # ""
    /\ lastOp.res = RUndefined /\ lastOp.errs = 1

\* C5: the configuration handed to the backend keeps every nested key
\* (of cloud and of mdb) that the stored configuration sets and the per-call
\* override does not mention, with its stored value.
C5_NestedKeysSurvive ==
    lastOp.dispatched =>
        \A n \in {"cloud", "mdb"} :
            \A k \in DOMAIN Nested(lastOp.before, n) :
                k \notin DOMAIN Nested(lastOp.override, n) =>
                    /\ k \in DOMAIN Nested(lastOp.handed, n)
                    /\ lastOp.handed[n][k] = lastOp.before[n][k]

\* C6: after configure(o), type and flow are o's when o gives one and the
\* old ones otherwise; cloud and mdb hold o's keys with o's values and every
\* other old key with its old value; and configure(o) once more leaves the
\* stored configuration as it is.
C6_ConfigureMerges ==
    IsCall("configure") =>
        /\ \A f \in {"type", "flow"} :
               options[f] = IF Field(lastOp.override, f) # ""
                            THEN lastOp.override[f]
                            ELSE Field(lastOp.before, f)
        /\ \A n \in {"cloud", "mdb"} :
               /\ DOMAIN options[n] =
                      DOMAIN Nested(lastOp.before, n) \cup DOMAIN Nested(lastOp.override, n)
               /\ \A k \in DOMAIN options[n] :
                      options[n][k] = IF k \in DOMAIN Nested(lastOp.override, n)
                                      THEN lastOp.override[n][k]
                                      ELSE lastOp.before[n][k]
        /\ configure(options, lastOp.override) = options

C6_Witness ==
    /\ IsCall("configure")
    /\ lastOp.before = [type |-> "mdb", mdb |-> M1]
    /\ lastOp.override = [mdb |-> [uri |-> "URI_B"]]
    /\ options["mdb"] = [uri |-> "URI_B", database |-> "d1", collection |-> "c1"]

\* the latest call is a resolve that queried the collection and key of r
\* while the server was reachable
ResolvedFrom(r) ==
    /\ IsCall("resolve") /\ lastOp.backend = "mdb" /\ lastOp.fail = "none"
    /\ lastOp.target = r.target /\ lastOp.key = r.key

\* C7 as stated: once save(k, v) is acknowledged, a resolve(k) on the same
\* backend instance and collection returns v, as long as no later save to k
\* was acknowledged.
C7_RoundTrip ==
    \A r \in saved : ResolvedFrom(r) => lastOp.bres = RValue(Plain(r.pt))

\* C7 amended: once save(k, v) is acknowledged, a resolve(k) on the same
\* backend instance and collection returns v, as long as no later save to k
\* was acknowledged and the instance was not closed in between.
C7_RoundTripNoClose ==
    \A r \in saved : (r.live /\ ResolvedFrom(r)) => lastOp.bres = RValue(Plain(r.pt))

C7_Witness ==
    \E r \in saved : r.live /\ ResolvedFrom(r) /\ lastOp.res = RValue(Plain(r.pt))

\* C8: two createDataKey calls made one after the other for the same
\* alternate name request at most one key creation between them and return
\* the same key identifier.
C8_SequentialKeyReuse ==
    \A i \in 1..(Len(keyCalls) - 1) :
        keyCalls[i].alt = keyCalls[i + 1].alt =>
            /\ ~(keyCalls[i].created /\ keyCalls[i + 1].created)
            /\ keyCalls[i].id = keyCalls[i + 1].id

\* C9: a save on the AWS backend fails, whatever the key, value and options,
\* and changes nothing: no document, no handle, no stored options.
C9_AwsSaveFailsUnchanged ==
    [][(lastOp'.op = "save" /\ lastOp'.backend = "aws" /\ nops' = nops + 1) =>
           /\ lastOp'.bres = RThrow
           /\ UNCHANGED <<env, assistant, options, mdbOptions, client, encryption,
                          store, nextId, keyCalls, saved>>]_vars

C9_Witness ==
    IsCall("save") /\ lastOp.backend = "aws" /\ lastOp.bres = RThrow

\* C10: a collection holds at most one secret document per key, and for
\* every key saved it holds the value of the latest acknowledged save,
\* encrypted.
C10_OneRecordPerKey ==
    /\ \A d, e \in store :
           (d.kind = "secret" /\ e.kind = "secret" /\ d.srv = e.srv /\ d.db = e.db
                /\ d.coll = e.coll /\ d.key = e.key) => d = e
    /\ \A r \in saved :
           \E d \in store :
               /\ d.kind = "secret" /\ d.key = r.key
               /\ [srv |-> d.srv, db |-> d.db, coll |-> d.coll] = r.target
               /\ d.encrypted /\ d.val.enc /\ d.val.pt = r.pt

C10_Witness ==
    \E r \in saved :
        /\ r.writes >= 2
        /\ \E d \in store : d.kind = "secret" /\ d.key = r.key /\ d.val.pt = r.pt

\* the latest call reached the store: it queried a collection
TouchedStore == lastOp.op \in {"resolve", "save"} /\ lastOp.target # NoTarget

\* C11: close() leaves the client and the encryption context absent,
\* whatever they were; and the first resolve or save after a close() that
\* reaches the store has built a client for the configured server and an
\* encryption context for the configured key vault on that client.
C11_CloseThenFresh ==
    [][/\ (lastOp'.op = "close" /\ nops' = nops + 1) =>
              (client' = NoClient /\ encryption' = NoEncryption)
       /\ (lastOp.op = "close" /\ TouchedStore') =>
              /\ ~client.present /\ ~encryption.present
              /\ client'.present /\ encryption'.present
              /\ client'.srv = EnvGet(Field(Nested(lastOp'.handed, "mdb"), "uri"))
              /\ lastOp'.target.srv = client'.srv
              /\ encryption'.srv = client'.srv
              /\ encryption'.keyVaultNamespace = getkeyVaultNamespace(lastOp'.handed)]_vars

C11_Witness ==
    /\ TouchedStore /\ nops = 3
    /\ \E r \in saved : ~r.live
    /\ client.present /\ encryption.present /\ lastOp.res.kind = "value"

\* the type of the latest call: the override's when it gives one, else the stored one
EffectiveType ==
    IF Has(lastOp.override, "type") THEN lastOp.override["type"]
    ELSE Field(lastOp.before, "type")

\* the type strings in use, in their spellings
TypeStrings == {"mdb", "MDB", "Mdb", "aws", "AWS", "vault"}

\* the latest call's merged configuration with its type spelled t
MergedWithType(t) ==
    Spread(Spread(lastOp.before, lastOp.override), [type |-> t])

C14_DispatchIffMergedType ==
    LET merged == Spread(lastOp.before, lastOp.override) IN
    (lastOp.op \in {"resolve", "save"} /\ assistant
         /\ DelegateName(merged) \in Registered) =>
        (lastOp.dispatched <=> Field(merged, "type") # "")

\* C18: a resolve or save on the MongoDB backend leaves the options stored
\* in the backend instance as they were.
C18_StoredOptionsKept ==
    [][(lastOp'.backend = "mdb" /\ nops' = nops + 1) => mdbOptions' = mdbOptions]_vars

\* C19: an operation that reaches the store runs on a client connected to
\* the server its effective configuration names, and with an encryption
\* context built for the key vault that configuration names.
C19_HandlesMatchDescriptor ==
    (TouchedStore /\ lastOp.backend = "mdb") =>
        /\ lastOp.target.srv = EnvGet(Field(Nested(mdbOptions, "mdb"), "uri"))
        /\ encryption.present =>
               /\ encryption.srv = EnvGet(Field(Nested(mdbOptions, "mdb"), "uri"))
               /\ encryption.keyVaultNamespace = getkeyVaultNamespace(mdbOptions)

\* the mdb settings of the facade's stored configuration
StoredMdb == Nested(options, "mdb")

\* C12 as stated: the alternate name of the data key is the configured
\* keyAltName, and with none configured it is "{database}-{collection}.alt".
C12_AltNameDerived ==
    \A i \in 1..Len(keyCalls) :
        /\ Field(StoredMdb, "keyAltName") # "" =>
               keyCalls[i].alt = StoredMdb["keyAltName"]
        /\ (Field(StoredMdb, "keyAltName") = "" /\ Field(StoredMdb, "database") # ""
                /\ Field(StoredMdb, "collection") # "") =>
               keyCalls[i].alt =
                   StoredMdb["database"] \o "-" \o StoredMdb["collection"] \o ".alt"

\* C12 amended: the alternate name of the data key is the configured
\* keyAltName; with none configured it is the environment variable
\* KOZEN_SM_ALT when that is set; otherwise it is
\* "{database}-{collection}.alt", with "db" for a missing database and "co"
\* for a missing collection.  Calls under one configuration and environment
\* all use the same name.
C12_AltNameResolved ==
    \A i \in 1..Len(keyCalls) :
        /\ keyCalls[i].alt =
               IF Field(StoredMdb, "keyAltName") # "" THEN StoredMdb["keyAltName"]
               ELSE IF "KOZEN_SM_ALT" \in DOMAIN env THEN env["KOZEN_SM_ALT"]
               ELSE (IF Has(StoredMdb, "database") THEN StoredMdb["database"] ELSE "db")
                        \o "-"
                        \o (IF Has(StoredMdb, "collection") THEN StoredMdb["collection"]
                            ELSE "co")
                        \o ".alt"
        /\ keyCalls[i].alt = keyCalls[1].alt

C12_Witness ==
    /\ Len(keyCalls) = 2
    /\ ~Has(StoredMdb, "keyAltName") /\ Field(StoredMdb, "database") = "d1"
    /\ "KOZEN_SM_ALT" \in DOMAIN env
    /\ keyCalls[2].alt = "shared.alt"

\* C20: an encryption context always has the local KMS provider, and has
\* the aws provider exactly when cloud.accessKeyId and cloud.secretAccessKey
\* are both configured and mdb.source is 'cloud'.
C20_KmsProviders ==
    encryption.present =>
        /\ encryption.kmsProviders.local # NoEncryption.kmsProviders.local
        /\ encryption.kmsProviders.aws <=>
               /\ Has(Nested(options, "cloud"), "accessKeyId")
               /\ Has(Nested(options, "cloud"), "secretAccessKey")
               /\ Field(StoredMdb, "source") = "cloud"

C20_Witness ==
    /\ encryption.present /\ encryption.kmsProviders.aws
    /\ Nested(options, "cloud") = Cloud1 /\ Field(StoredMdb, "source") = "cloud"
    /\ IsCall("save") /\ lastOp.res = RTrue

\* C15: however resolve and save calls on one MongoDB backend instance
\* overlap, at most one client and at most one encryption context are
\* constructed from one reset of the fields by close() to the next.
C15_OneClientOneContext == built.clients <= 1 /\ built.ctxs <= 1

C15_Witness ==
    \E t, u \in Tasks :
        /\ pc[t] = "connect" /\ pc[u] = "inited" /\ loc[u].cl.present
        /\ built.clients = 1 /\ built.ctxs = 1

\* C16: nothing holds back the key creation of a save that missed the find
\* step: unless the request itself fails, it creates a data key with the
\* alternate name, also when another save has created one with that name in
\* the meantime (the witness: two overlapping saves that both created one).
C16_CreateNotPrevented ==
    [][\A t \in Tasks :
           (pc[t] = "keycreate" /\ pc'[t] # "keycreate") =>
               \/ loc'[t].res = IoError
               \/ /\ pc'[t] = "encrypt"
                  /\ \E d \in store' \ store :
                         /\ d.kind = "dek" /\ d.id = loc'[t].id
                         /\ d.key = getKeyAlt(ConcOptions, TRUE, mdbOptions)]_vars

C16_Witness ==
    /\ nops = 2 /\ Len(keyCalls) = 2
    /\ keyCalls[1].created /\ keyCalls[2].created /\ keyCalls[1].alt = keyCalls[2].alt
    /\ \E d, e \in store :
           /\ d.kind = "dek" /\ e.kind = "dek" /\ d.id # e.id /\ d.key = e.key
           /\ d.srv = e.srv /\ d.db = e.db /\ d.coll = e.coll

\* C17: however calls overlap, a resolve on the MongoDB backend that returns
\* a value returns the decrypted value of a record flagged encrypted, never
\* its ciphertext, and the stored value of a record not flagged.
C17_NeverRawCiphertext ==
    \A t \in Tasks :
        (pc[t] = "done" /\ loc[t].op = "resolve" /\ loc[t].res.kind = "value") =>
            IF loc[t].flagged
            THEN loc[t].res.val = Plain(loc[t].item.pt)
            ELSE loc[t].res.val = loc[t].item

\* C21: a save on the MongoDB backend whose configuration names no mdb
\* target or no collection fails and leaves the client and the encryption
\* context as they were before the call.
C21_ValidatesBeforeConnect ==
    [][(/\ lastOp'.op = "save" /\ lastOp'.backend = "mdb" /\ nops' = nops + 1
        /\ \/ ~Has(mdbOptions', "mdb")
           \/ Field(Nested(mdbOptions', "mdb"), "collection") = "") =>
           /\ lastOp'.bres.kind = "throw"
           /\ client' = client
           /\ encryption' = encryption]_vars

\* C24: after a resolve or save during which the server could not be
\* reached, the backend holds no client that never connected.
C24_FailedConnectLeavesNoClient ==
    (lastOp.op \in {"resolve", "save"} /\ lastOp.backend = "mdb"
         /\ lastOp.fail = "down" /\ lastOp.bres.kind = "throw") =>
        (client.present => client.connected)

\* C22: once a save has obtained a key identifier, a later save with the
\* same configured database, collection and alternate name neither searches
\* the key vault nor requests a key creation.
C22_KeyIdCached ==
    \A i \in 2..Len(keyCalls) :
        (/\ Field(StoredMdb, "database") # "" /\ Field(StoredMdb, "collection") # ""
         /\ keyCalls[1].id # 0 /\ keyCalls[i].alt = keyCalls[1].alt) =>
            (~keyCalls[i].looked /\ ~keyCalls[i].created)

\* C23: however save, resolve and close() calls follow or overlap one
\* another, every secret document in the store is flagged encrypted and
\* holds a ciphertext made by the encryption client under a data key of the
\* store; each acknowledged save has left such a document.
C23_OnlyCiphertextWritten ==
    /\ \A d \in store :
           d.kind = "secret" =>
               /\ d.encrypted /\ d.val.enc
               /\ \E k \in store : k.kind = "dek" /\ k.id = d.val.dek
    /\ \A r \in saved :
           \E d \in store :
               /\ d.kind = "secret" /\ d.key = r.key
               /\ [srv |-> d.srv, db |-> d.db, coll |-> d.coll] = r.target
               /\ d.encrypted /\ d.val.enc

C23_Witness ==
    \E t, u \in Tasks :
        /\ loc[t].op = "save" /\ pc[t] = "done" /\ loc[t].res = RTrue
        /\ loc[u].op = "close" /\ pc[u] = "done" /\ ~client.present
        /\ \E r \in saved : r.live /\ r.key = loc[t].key /\ r.pt = loc[t].val

\* the connect() of the client now in this.client has not completed
ConnectOutstanding ==
    /\ client.present /\ ~client.connected
    /\ \E u \in Tasks : pc[u] = "connect" /\ loc[u].gen = built.cur

\* C25: however resolve and save calls overlap, no call has a store query,
\* key lookup, key creation, encrypt or decrypt request under way through the
\* shared client while that client's connect() has not completed.
C25_NoRequestBeforeConnect ==
    \A t \in Tasks :
        (pc[t] \in {"find", "decrypt", "keyfind", "keycreate", "encrypt", "update"}
             /\ loc[t].cl = client) =>
            ~ConnectOutstanding

====
